---- MODULE Spec2Model ----
(***************************************************************************)
(* Report intake, scoring-oracle fallback, triage queue and status update  *)
(* of the SafeGuard backend (server/src/controllers, report controller).   *)
(*                                                                         *)
(* Scores are integers in hundredths (DECIMAL(5,2)): 640 is 6.40.          *)
(* Spam probabilities are integers in ten-thousandths (DECIMAL(5,4)):      *)
(* 8000 is 0.8000.  A nullable column holds <<>> (NULL) or <<v>>.          *)
(*                                                                         *)
(* Spec runs the handlers one request at a time, each as one step.         *)
(* StepSpec runs submitReport as the steps between its awaits, with reads  *)
(* of other requests in between; sub is the submission in flight, <<>>     *)
(* when there is none.  ConcSpec runs two updateReportStatus calls as the  *)
(* statements of their transactions, interleaved; upd holds the two calls. *)
(***************************************************************************)
EXTENDS Integers, Sequences, FiniteSets, TLC

VARIABLES reports, media, analyses, activities, response, sub, upd,
          req, ran, userRows, auth, route

vars == <<reports, media, analyses, activities, response, sub, upd,
          req, ran, userRows, auth, route>>

\* What the report handlers never touch: the request passing the guards of
\* the mock server and the handlers it reached (req, ran), the users table
\* (userRows), and the browser's AuthProvider and ProtectedRoute (auth,
\* route).
otherParts == <<req, ran, userRows, auth, route>>

(***************************************************************************)
(* Bounds of the model.                                                    *)
(***************************************************************************)
MaxReports == 2

MaxActivities == 2

(***************************************************************************)
(* Values.                                                                 *)
(***************************************************************************)
Null == <<>>

Val(x) == <<x>>

NoUser == "null"

\* JavaScript's numeric coercion in a relational comparison: null is 0.
NumOf(v) == IF v = Null THEN 0 ELSE v[1]

\* models/User.js: users with their stored credibilityScore and role.
Users ==
  [u1 |-> [id |-> "u1", username |-> "alice", role |-> "citizen",
           credibilityScore |-> 250],
   a1 |-> [id |-> "a1", username |-> "bob", role |-> "agency_staff",
           credibilityScore |-> 100]]

IncidentTypes == {"physical", "cyber", "harassment", "other"}

\* Mutant of Statuses: the validator lets one more value through.
StatusesWithBogus ==
  {"pending", "reviewing", "assigned", "resolved", "closed", "bogus"}

Statuses == {"pending", "reviewing", "assigned", "resolved", "closed"}

MinDescriptionLength == 20

SpamThreshold == 8000

DefaultCredibility == 100

DefaultLimit == 20

UnavailableNote == "AI analysis unavailable"

(***************************************************************************)
(* The scoring oracle (external AI service).                               *)
(***************************************************************************)
\* Emergency Score = text*0.4 + media*0.5 + credibility*0.1, in hundredths.
Composite(t, m, c) == (4 * t + 5 * m + c) \div 10

OracleData(t, m, c, s) ==
  [textSeverityScore |-> t, mediaSeverityScore |-> m,
   userCredibilityScore |-> c, spamProbability |-> s,
   emergencyScore |-> Composite(t, m, c), aiNotes |-> "analysed"]

\* What one call of the oracle can produce: an exception (unreachable,
\* non-2xx, timeout), a reply with an empty body, or a reply with scores.
OracleFail == [kind |-> "fail"]

OracleEmpty == [kind |-> "empty"]

OracleOk(d) == [kind |-> "ok", data |-> d]

HighScore == OracleOk(OracleData(800, 600, 200, 8000))

SpamScore == OracleOk(OracleData(1000, 1000, 500, 9500))

LowScore == OracleOk(OracleData(0, 0, 100, 1000))

(***************************************************************************)
(* Requests tried by the model: the request fields submitReport reads      *)
(* (req.user, req.body, req.files) with the oracle's behaviour on the call.*)
(***************************************************************************)
Request(u, anon, type, len, n, o) ==
  [user |-> u, isAnonymous |-> anon, incidentType |-> type,
   descriptionLength |-> len, nFiles |-> n, oracle |-> o, location |-> Null]

\* The location of a multipart request as the body parser hands it on: one
\* field holding JSON text (req.body.location is a string), or the fields
\* location[lat], location[lng] (req.body.location is an object).
\* Coordinates are whole degrees.
Location(enc, lat, lng) == Val([enc |-> enc, lat |-> lat, lng |-> lng])

Located(c, loc) == [c EXCEPT !.location = loc]

Submissions ==
  { Request(NoUser, TRUE, "physical", 20, 0, OracleFail),
    Request("u1", TRUE, "cyber", 25, 1, OracleFail),
    Request("u1", FALSE, "physical", 20, 1, HighScore),
    Request(NoUser, TRUE, "harassment", 20, 0, SpamScore),
    Request(NoUser, FALSE, "other", 25, 1, LowScore),
    Request("u1", FALSE, "physical", 20, 0, OracleEmpty),
    Request(NoUser, TRUE, "bogus", 20, 0, HighScore),
    Request("u1", FALSE, "physical", 19, 1, OracleFail),
    Request(NoUser, TRUE, "cyber", 0, 0, OracleFail) }

\* Where a database statement of the handler is made to fail.
SubmitFailures == {"none", "report", "media", "analysis", "update",
                   "fallback", "commit"}

UpdateFailures == {"none", "update", "activity", "commit"}

StatusInputs == {"reviewing", "closed", "bogus"}

Actors == {"a1"}

Limits == {Null, Val(1)}

(***************************************************************************)
(* The store and its transactions (PostgreSQL through Sequelize).          *)
(***************************************************************************)
Store == [reports |-> reports, media |-> media, analyses |-> analyses,
          activities |-> activities]

\* sequelize.transaction(): the statements of a handler work on a private
\* copy of the committed store.
Begin == [reports |-> reports, media |-> media, analyses |-> analyses,
          activities |-> activities, aborted |-> FALSE]

\* Mutant of StmtFails: a failed statement does not abort the transaction.
StmtFailsAlone(tx, inject) == inject

\* A statement fails when the database rejects it, and PostgreSQL rejects
\* every statement of a transaction in which an earlier statement failed.
StmtFails(tx, inject) == tx.aborted \/ inject

Abort(tx) == [tx EXCEPT !.aborted = TRUE]

\* transaction.commit(): the private copy becomes the committed store.
Commit(tx) == [reports |-> tx.reports, media |-> tx.media,
               analyses |-> tx.analyses, activities |-> tx.activities]

\* Mutant of Rollback: the statements were not bound to the transaction.
RollbackKeepsWrites(tx) ==
  [reports |-> tx.reports, media |-> tx.media, analyses |-> tx.analyses,
   activities |-> tx.activities]

\* transaction.rollback(): the committed store stays as it was.
Rollback(tx) == Store

Install(s) ==
  /\ reports' = s.reports
  /\ media' = s.media
  /\ analyses' = s.analyses
  /\ activities' = s.activities

\* The two concurrent callers of updateReportStatus.
UpdCalls == {"A", "B"}

IdleCall == [pc |-> "idle", id |-> 0, status |-> "", user |-> NoUser,
             seen |-> "", wrote |-> FALSE, createdAt |-> 0]

Init ==
  /\ reports = <<>>
  /\ media = {}
  /\ analyses = <<>>
  /\ activities = <<>>
  /\ response = [op |-> "none", code |-> 0, report |-> Null,
                 reports |-> <<>>]
  /\ sub = <<>>
  /\ upd = [k \in UpdCalls |-> IdleCall]
  /\ req = <<>>
  /\ ran = <<>>
  /\ userRows = <<>>
  /\ auth = <<>>
  /\ route = <<>>

Reply(op, code, report, rows) ==
  [op |-> op, code |-> code, report |-> report, reports |-> rows]

(***************************************************************************)
(* POST /api/reports: validateReport, then submitReport.                   *)
(***************************************************************************)
\* Mutant of validateReport: the description is not checked.
validateReportTypeOnly(c) ==
  IF c.incidentType \in IncidentTypes THEN {} ELSE {"incidentType"}

\* req.body.location.lat, req.body.location.lng as the validator's selector
\* and the handler's location?.lat read them: a property of a string is
\* undefined.
LocationField(loc, k) ==
  IF loc = Null \/ loc[1].enc = "json" THEN Null ELSE Val(loc[1][k])

\* .optional().isFloat({ min, max }): an undefined field is not checked.
FloatInRange(v, min, max) == v = Null \/ (v[1] >= min /\ v[1] <= max)

\* The fields express-validator rejects.
validateReport(c) ==
  (IF c.incidentType \in IncidentTypes THEN {} ELSE {"incidentType"})
  \cup (IF c.descriptionLength >= MinDescriptionLength THEN {}
        ELSE {"description"})
  \cup (IF FloatInRange(LocationField(c.location, "lat"), -90, 90) THEN {}
        ELSE {"location.lat"})
  \cup (IF FloatInRange(LocationField(c.location, "lng"), -180, 180) THEN {}
        ELSE {"location.lng"})

\* Mutant of NewReport: the report is created with emergencyScore 0.
NewReportScoredZero(id, c) ==
  [id |-> id, userId |-> c.user, incidentType |-> c.incidentType,
   descriptionLength |-> c.descriptionLength,
   isAnonymous |-> c.isAnonymous, status |-> "pending",
   emergencyScore |-> Val(0), isSpam |-> FALSE,
   locationLat |-> LocationField(c.location, "lat"),
   locationLng |-> LocationField(c.location, "lng")]

\* Report.create: status pending; emergencyScore and isSpam take the
\* column defaults (NULL, false); locationLat: location?.lat || null.
NewReport(id, c) ==
  [id |-> id, userId |-> c.user, incidentType |-> c.incidentType,
   descriptionLength |-> c.descriptionLength,
   isAnonymous |-> c.isAnonymous, status |-> "pending",
   emergencyScore |-> Null, isSpam |-> FALSE,
   locationLat |-> LocationField(c.location, "lat"),
   locationLng |-> LocationField(c.location, "lng")]

CreateReport(tx, id, c, failAt) ==
  IF StmtFails(tx, failAt = "report")
  THEN [tx |-> Abort(tx), threw |-> TRUE]
  ELSE [tx |-> [tx EXCEPT !.reports = Append(@, NewReport(id, c))],
        threw |-> FALSE]

\* ReportMedia.create for every uploaded file.
CreateMedia(tx, id, c, failAt) ==
  IF c.nFiles = 0 THEN [tx |-> tx, threw |-> FALSE]
  ELSE IF StmtFails(tx, failAt = "media")
  THEN [tx |-> Abort(tx), threw |-> TRUE]
  ELSE [tx |-> [tx EXCEPT !.media =
                  @ \cup {[reportId |-> id, file |-> n] : n \in 1..c.nFiles}],
        threw |-> FALSE]

\* Mutant of AnalysisFromResponse: the text score is stored as composite.
AnalysisWithTextAsComposite(id, d) ==
  [reportId |-> id, textSeverityScore |-> d.textSeverityScore,
   mediaSeverityScore |-> d.mediaSeverityScore,
   userCredibilityScore |-> d.userCredibilityScore,
   spamProbability |-> d.spamProbability,
   emergencyScore |-> d.textSeverityScore, aiNotes |-> d.aiNotes]

\* Mutant of AnalysisFromResponse: the composite is recomputed from the
\* component scores.
AnalysisRecomputed(id, d) ==
  [reportId |-> id, textSeverityScore |-> d.textSeverityScore,
   mediaSeverityScore |-> d.mediaSeverityScore,
   userCredibilityScore |-> d.userCredibilityScore,
   spamProbability |-> d.spamProbability,
   emergencyScore |-> Composite(d.textSeverityScore, d.mediaSeverityScore,
                                d.userCredibilityScore),
   aiNotes |-> d.aiNotes]

\* The Analysis row built from the oracle's reply: its fields are copied.
AnalysisFromResponse(id, d) ==
  [reportId |-> id, textSeverityScore |-> d.textSeverityScore,
   mediaSeverityScore |-> d.mediaSeverityScore,
   userCredibilityScore |-> d.userCredibilityScore,
   spamProbability |-> d.spamProbability,
   emergencyScore |-> d.emergencyScore, aiNotes |-> d.aiNotes]

\* Mutant of FallbackAnalysis: the reporter's credibility is not looked up.
FallbackAnalysisDefaultCredibility(id, c) ==
  [reportId |-> id, textSeverityScore |-> 0, mediaSeverityScore |-> 0,
   userCredibilityScore |-> DefaultCredibility,
   spamProbability |-> 0, emergencyScore |-> 0, aiNotes |-> UnavailableNote]

\* The Analysis row of the catch block.
FallbackAnalysis(id, c) ==
  [reportId |-> id, textSeverityScore |-> 0, mediaSeverityScore |-> 0,
   userCredibilityScore |->
     IF c.user # NoUser THEN Users[c.user].credibilityScore
     ELSE DefaultCredibility,
   spamProbability |-> 0, emergencyScore |-> 0, aiNotes |-> UnavailableNote]

\* Mutant of IsSpam: a probability of exactly 0.8 counts as spam.
IsSpamAtThreshold(spamProbability) == spamProbability >= SpamThreshold

\* isSpam: spamProbability > 0.8
IsSpam(spamProbability) == spamProbability > SpamThreshold

\* report.update({emergencyScore, isSpam}).
ScoredReport(r, d) ==
  [r EXCEPT !.emergencyScore = Val(d.emergencyScore),
            !.isSpam = IsSpam(d.spamProbability)]

\* Mutant of CatchAiError: the oracle's error is passed on to the caller.
CatchAiErrorRethrows(tx, id, c, score, failAt) ==
  [tx |-> Abort(tx), threw |-> TRUE, emergencyScore |-> score]

\* catch (aiError): whatever was thrown inside the scoring block, the
\* fallback row is created in the same transaction.
CatchAiError(tx, id, c, score, failAt) ==
  IF StmtFails(tx, failAt = "fallback")
  THEN [tx |-> Abort(tx), threw |-> TRUE, emergencyScore |-> score]
  ELSE [tx |-> [tx EXCEPT !.analyses = Append(@, FallbackAnalysis(id, c))],
        threw |-> FALSE, emergencyScore |-> score]

\* The scoring block: one oracle call, then the Analysis row and the
\* report's score, or the fallback.
ScoreReport(tx, id, c, failAt) ==
  IF c.oracle.kind = "fail" THEN CatchAiError(tx, id, c, 0, failAt)
  ELSE IF c.oracle.kind = "empty"
  THEN [tx |-> tx, threw |-> FALSE, emergencyScore |-> 0]
  ELSE LET d == c.oracle.data IN
    IF StmtFails(tx, failAt = "analysis")
    THEN CatchAiError(Abort(tx), id, c, 0, failAt)
    ELSE LET t1 == [tx EXCEPT !.analyses =
                      Append(@, AnalysisFromResponse(id, d))] IN
      IF StmtFails(t1, failAt = "update")
      THEN CatchAiError(Abort(t1), id, c, d.emergencyScore, failAt)
      ELSE [tx |-> [t1 EXCEPT !.reports[id] = ScoredReport(@, d)],
            threw |-> FALSE, emergencyScore |-> d.emergencyScore]

\* The statements of the transaction, up to the commit.
SubmitBody(id, c, failAt) ==
  LET a == CreateReport(Begin, id, c, failAt) IN
  IF a.threw THEN [tx |-> a.tx, threw |-> TRUE, emergencyScore |-> 0]
  ELSE LET b == CreateMedia(a.tx, id, c, failAt) IN
    IF b.threw THEN [tx |-> b.tx, threw |-> TRUE, emergencyScore |-> 0]
    ELSE ScoreReport(b.tx, id, c, failAt)

\* The report of the 201 response: the created instance's fields and the
\* handler's local emergencyScore.
SubmitResponse(id, c, score) ==
  [id |-> id, incidentType |-> c.incidentType,
   descriptionLength |-> c.descriptionLength,
   isAnonymous |-> c.isAnonymous, status |-> "pending",
   emergencyScore |-> Val(score), media |-> c.nFiles]

submitReport(c, failAt) ==
  /\ Len(reports) < MaxReports
  /\ IF validateReport(c) # {}
     THEN /\ response' = Reply("submitReport", 400, Null, <<>>)
          /\ UNCHANGED <<reports, media, analyses, activities>>
     ELSE LET id == Len(reports) + 1
              p == SubmitBody(id, c, failAt)
          IN IF p.threw \/ StmtFails(p.tx, failAt = "commit")
             THEN /\ Install(Rollback(p.tx))
                  /\ response' = Reply("submitReport", 500, Null, <<>>)
             ELSE /\ Install(Commit(p.tx))
                  /\ response' = Reply("submitReport", 201,
                        Val(SubmitResponse(id, c, p.emergencyScore)), <<>>)

(***************************************************************************)
(* GET /api/reports/queue: getPriorityQueue.                               *)
(***************************************************************************)
\* Mutant of QueueWhere: the isSpam condition is missing.
QueueWhereWithSpam(r) == r.status \in {"pending", "reviewing"}

\* Mutant of QueueWhere: the status condition is missing.
QueueWhereAnyStatus(r) == r.isSpam = FALSE

\* where: status in (pending, reviewing) and isSpam = false
QueueWhere(r) == r.status \in {"pending", "reviewing"} /\ r.isSpam = FALSE

\* ORDER BY "emergencyScore" DESC in PostgreSQL: NULL sorts before every
\* value; rows with equal keys come in any order.
QueueOrder(a, b) == a = Null \/ (b # Null /\ a[1] >= b[1])

AnalysesOf(id) == SelectSeq(analyses, LAMBDA a : a.reportId = id)

\* include: reporter (id, username, credibilityScore) and analysis.
QueueRow(r) ==
  [id |-> r.id, userId |-> r.userId, isAnonymous |-> r.isAnonymous,
   status |-> r.status, emergencyScore |-> r.emergencyScore,
   isSpam |-> r.isSpam,
   reporter |-> IF r.userId = NoUser THEN Null
                ELSE Val([id |-> r.userId,
                          username |-> Users[r.userId].username,
                          credibilityScore |->
                            Users[r.userId].credibilityScore]),
   analysis |-> AnalysesOf(r.id)]

\* limit: parseInt(limit), 20 when the query has none.
QueueLimit(limit) == IF limit = Null THEN DefaultLimit ELSE limit[1]

Min(a, b) == IF a < b THEN a ELSE b

\* Every list the query can return on the committed store.
QueueResults(limit) ==
  LET ids == {i \in 1..Len(reports) : QueueWhere(reports[i])}
      n == Cardinality(ids)
      orders == {q \in [1..n -> ids] :
                   /\ \A i, j \in 1..n : i # j => q[i] # q[j]
                   /\ \A i \in 1..(n - 1) :
                        QueueOrder(reports[q[i]].emergencyScore,
                                   reports[q[i + 1]].emergencyScore)}
      k == Min(QueueLimit(limit), n)
  IN {[i \in 1..k |-> QueueRow(reports[q[i]])] : q \in orders}

getPriorityQueue(limit) ==
  /\ \E rows \in QueueResults(limit) :
       response' = Reply("getPriorityQueue", 200, Null, rows)
  /\ UNCHANGED <<reports, media, analyses, activities>>

(***************************************************************************)
(* GET /api/reports/:id: getReportById.                                    *)
(***************************************************************************)
\* The report with its includes: reporter, media, analysis, activities.
ReportView(r) ==
  [id |-> r.id, incidentType |-> r.incidentType,
   descriptionLength |-> r.descriptionLength,
   isAnonymous |-> r.isAnonymous, status |-> r.status,
   emergencyScore |-> r.emergencyScore, isSpam |-> r.isSpam,
   userId |-> r.userId,
   locationLat |-> r.locationLat, locationLng |-> r.locationLng,
   reporter |-> IF r.userId = NoUser THEN Null
                ELSE Val([id |-> r.userId,
                          username |-> Users[r.userId].username,
                          credibilityScore |->
                            Users[r.userId].credibilityScore]),
   media |-> Cardinality({m \in media : m.reportId = r.id}),
   analysis |-> AnalysesOf(r.id),
   activities |-> SelectSeq(activities, LAMBDA a : a.reportId = r.id)]

getReportById(id) ==
  /\ IF id \notin 1..Len(reports)
     THEN response' = Reply("getReportById", 404, Null, <<>>)
     ELSE response' = Reply("getReportById", 200,
                            Val(ReportView(reports[id])), <<>>)
  /\ UNCHANGED <<reports, media, analyses, activities>>

(***************************************************************************)
(* PATCH /api/reports/:id/status: updateReportStatus.                      *)
(***************************************************************************)
\* The order in which the statuses are listed.
StatusOrder == <<"pending", "reviewing", "assigned", "resolved", "closed">>

StatusRank(st) == CHOOSE k \in 1..Len(StatusOrder) : StatusOrder[k] = st

\* Mutant of UpdatedStatus: a status that precedes the current one is ignored.
UpdatedStatusForwardOnly(current, status) ==
  IF StatusRank(status) >= StatusRank(current) THEN status ELSE current

\* report.update({ status }): the requested status replaces the current one.
UpdatedStatus(current, status) == status

\* Mutant of StatusActivity: the entry is attributed to the reporter.
StatusActivityByReporter(id, user, status) ==
  [reportId |-> id, userId |-> reports[id].userId,
   activityType |-> "status_update", description |-> status,
   createdAt |-> Len(activities) + 1]

\* CaseActivity.create: description "Status updated to <status>"; createdAt
\* is the time of the create call, counted in entries created so far.
StatusActivity(id, user, status) ==
  [reportId |-> id, userId |-> user, activityType |-> "status_update",
   description |-> status, createdAt |-> Len(activities) + 1]

\* Mutant of SavesStatus: the UPDATE is sent also when nothing changed.
SavesStatusAlways(seen, status) == TRUE

\* report.update({ status }): Sequelize saves the fields that changed on the
\* instance it read; when the status is the one the instance already has,
\* no UPDATE is sent.
SavesStatus(seen, status) == seen # status

updateReportStatus(id, status, user, failAt) ==
  /\ Len(activities) < MaxActivities
  /\ IF status \notin Statuses
     THEN /\ response' = Reply("updateReportStatus", 400, Null, <<>>)
          /\ UNCHANGED <<reports, media, analyses, activities>>
     ELSE LET t0 == Begin IN
       IF id \notin 1..Len(reports)
       THEN /\ Install(Rollback(t0))
            /\ response' = Reply("updateReportStatus", 404, Null, <<>>)
       ELSE IF StmtFails(t0, failAt = "update"
                               /\ SavesStatus(reports[id].status, status))
       THEN /\ Install(Rollback(Abort(t0)))
            /\ response' = Reply("updateReportStatus", 500, Null, <<>>)
       ELSE LET t1 == [t0 EXCEPT !.reports[id].status =
                           UpdatedStatus(@, status)] IN
         IF StmtFails(t1, failAt = "activity")
         THEN /\ Install(Rollback(Abort(t1)))
              /\ response' = Reply("updateReportStatus", 500, Null, <<>>)
         ELSE LET t2 == [t1 EXCEPT !.activities =
                           Append(@, StatusActivity(id, user, status))] IN
           IF StmtFails(t2, failAt = "commit")
           THEN /\ Install(Rollback(t2))
                /\ response' = Reply("updateReportStatus", 500, Null, <<>>)
           ELSE /\ Install(Commit(t2))
                /\ response' = Reply("updateReportStatus", 200,
                                     Val([id |-> id,
                                          status |-> t2.reports[id].status]),
                                     <<>>)

(***************************************************************************)
(* The system.                                                             *)
(***************************************************************************)
SubmitStep ==
  /\ \E c \in Submissions, f \in SubmitFailures : submitReport(c, f)
  /\ UNCHANGED <<sub, upd, otherParts>>

QueueStep ==
  /\ \E limit \in Limits : getPriorityQueue(limit)
  /\ UNCHANGED <<sub, upd, otherParts>>

UpdateStep ==
  /\ \E id \in 1..MaxReports, s \in StatusInputs, u \in Actors,
        f \in UpdateFailures : updateReportStatus(id, s, u, f)
  /\ UNCHANGED <<sub, upd, otherParts>>

Next == SubmitStep \/ QueueStep \/ UpdateStep

Spec == Init /\ [][Next]_vars

(***************************************************************************)
(* submitReport as the steps between its awaits.                           *)
(***************************************************************************)
\* Up to the oracle call: validation, the transaction, the Report and Media
\* rows; then axios.post is issued and the handler waits for its outcome.
\* oracleCalls counts the axios.post calls of the submission.
submitReportBegin(c, failAt) ==
  /\ sub = <<>>
  /\ Len(reports) < MaxReports
  /\ IF validateReport(c) # {}
     THEN /\ response' = Reply("submitReport", 400, Null, <<>>)
          /\ UNCHANGED <<reports, media, analyses, activities, sub>>
     ELSE LET id == Len(reports) + 1
              a == CreateReport(Begin, id, c, failAt)
              b == CreateMedia(a.tx, id, c, failAt)
          IN IF a.threw \/ b.threw
             THEN /\ Install(Rollback(a.tx))
                  /\ response' = Reply("submitReport", 500, Null, <<>>)
                  /\ UNCHANGED sub
             ELSE /\ sub' = <<[pc |-> "awaitOracle", c |-> c,
                               failAt |-> failAt, id |-> id, tx |-> b.tx,
                               threw |-> FALSE, emergencyScore |-> 0,
                               oracleCalls |-> 1]>>
                  /\ UNCHANGED <<reports, media, analyses, activities,
                                 response>>
  /\ UNCHANGED <<upd, otherParts>>

\* Mutant of submitReportOracleSettles: after a failed call the oracle is
\* called a second time before the fallback.
submitReportOracleRetried ==
  /\ sub # <<>>
  /\ sub[1].pc = "awaitOracle"
  /\ IF sub[1].c.oracle.kind = "fail" /\ sub[1].oracleCalls < 2
     THEN sub' = <<[sub[1] EXCEPT !.oracleCalls = @ + 1]>>
     ELSE LET p == ScoreReport(sub[1].tx, sub[1].id, sub[1].c,
                               sub[1].failAt)
          IN sub' = <<[sub[1] EXCEPT !.pc = "commit", !.tx = p.tx,
                                     !.threw = p.threw,
                                     !.emergencyScore = p.emergencyScore]>>
  /\ UNCHANGED <<reports, media, analyses, activities, response>>
  /\ UNCHANGED <<upd, otherParts>>

\* The oracle call settles (a reply or an error) and the scoring block runs.
\* axios.post is given no timeout: nothing in the handler ends the wait.
submitReportOracleSettles ==
  /\ sub # <<>>
  /\ sub[1].pc = "awaitOracle"
  /\ LET p == ScoreReport(sub[1].tx, sub[1].id, sub[1].c, sub[1].failAt)
     IN sub' = <<[sub[1] EXCEPT !.pc = "commit", !.tx = p.tx,
                                !.threw = p.threw,
                                !.emergencyScore = p.emergencyScore]>>
  /\ UNCHANGED <<reports, media, analyses, activities, response>>
  /\ UNCHANGED <<upd, otherParts>>

\* transaction.commit(), or the outer catch: rollback and a server error.
submitReportCommit ==
  /\ sub # <<>>
  /\ sub[1].pc = "commit"
  /\ IF sub[1].threw \/ StmtFails(sub[1].tx, sub[1].failAt = "commit")
     THEN /\ Install(Rollback(sub[1].tx))
          /\ response' = Reply("submitReport", 500, Null, <<>>)
          /\ sub' = <<>>
     ELSE /\ Install(Commit(sub[1].tx))
          /\ sub' = <<[sub[1] EXCEPT !.pc = "respond"]>>
          /\ UNCHANGED response
  /\ UNCHANGED <<upd, otherParts>>

\* res.status(201).json(...)
submitReportRespond ==
  /\ sub # <<>>
  /\ sub[1].pc = "respond"
  /\ response' = Reply("submitReport", 201,
                       Val(SubmitResponse(sub[1].id, sub[1].c,
                                          sub[1].emergencyScore)), <<>>)
  /\ sub' = <<>>
  /\ UNCHANGED <<reports, media, analyses, activities>>
  /\ UNCHANGED <<upd, otherParts>>

BeginStep ==
  \E c \in Submissions, f \in SubmitFailures : submitReportBegin(c, f)

ReadStep ==
  /\ \E id \in 1..MaxReports : getReportById(id)
  /\ UNCHANGED <<sub, upd, otherParts>>

StepNext ==
  \/ BeginStep
  \/ submitReportOracleSettles
  \/ submitReportCommit
  \/ submitReportRespond
  \/ QueueStep
  \/ ReadStep

StepSpec == Init /\ [][StepNext]_vars

\* The event loop runs every continuation that is ready; whether the oracle
\* call ever settles is up to the oracle.
FairStepSpec ==
  StepSpec /\ WF_vars(submitReportCommit) /\ WF_vars(submitReportRespond)

(***************************************************************************)
(* The report routes with their middleware, called by anybody.             *)
(***************************************************************************)
AgencyRoles == {"agency_admin", "agency_staff"}

\* Who calls: nobody logged in, the citizen, the agency's staff member.
Callers == {NoUser, "u1", "a1"}

\* authenticate: the request goes on, with req.user set, when it carries the
\* token of a user, whatever the user's role; otherwise it is answered 401.
authenticate(caller) == caller # NoUser

\* router.get('/queue', authenticate, getPriorityQueue)
routeGetQueue(caller, limit) ==
  IF authenticate(caller)
  THEN getPriorityQueue(limit)
  ELSE /\ response' = Reply("getPriorityQueue", 401, Null, <<>>)
       /\ UNCHANGED <<reports, media, analyses, activities>>

\* router.patch('/:id/status', authenticate, [...], updateReportStatus)
routePatchStatus(caller, id, status, failAt) ==
  IF authenticate(caller)
  THEN updateReportStatus(id, status, caller, failAt)
  ELSE /\ Len(activities) < MaxActivities
       /\ response' = Reply("updateReportStatus", 401, Null, <<>>)
       /\ UNCHANGED <<reports, media, analyses, activities>>

\* The submissions tried with the routes: valid ones the oracle scores.
RouteSubmissions ==
  {c \in Submissions : validateReport(c) = {} /\ c.oracle.kind = "ok"}

RouteSubmitStep ==
  /\ \E c \in RouteSubmissions : submitReport(c, "none")
  /\ UNCHANGED <<sub, upd, otherParts>>

RouteQueueStep ==
  /\ \E caller \in Callers, limit \in Limits : routeGetQueue(caller, limit)
  /\ UNCHANGED <<sub, upd, otherParts>>

RouteStatusStep ==
  /\ \E caller \in Callers, id \in 1..MaxReports, s \in StatusInputs :
       routePatchStatus(caller, id, s, "none")
  /\ UNCHANGED <<sub, upd, otherParts>>

RouteNext == RouteSubmitStep \/ RouteQueueStep \/ RouteStatusStep

RouteSpec == Init /\ [][RouteNext]_vars

(***************************************************************************)
(* Two updateReportStatus calls as the statements of their transactions    *)
(* (PostgreSQL, READ COMMITTED): a statement reads the committed rows, an  *)
(* UPDATE locks its row until its transaction ends, and a transaction's    *)
(* writes become visible at its commit.                                    *)
(***************************************************************************)
\* The calls whose UPDATE of the report's row is not committed yet.
RowLockedBy(id) ==
  {j \in UpdCalls : upd[j].id = id /\ upd[j].wrote
                      /\ upd[j].pc \in {"log", "commit"}}

InFlight == {j \in UpdCalls : upd[j].pc # "idle"}

\* Validation of the body, then sequelize.transaction().
updateReportStatusBegin(k, id, status, user) ==
  /\ upd[k].pc = "idle"
  /\ Len(activities) + Cardinality(InFlight) < MaxActivities
  /\ IF status \notin Statuses
     THEN /\ response' = Reply("updateReportStatus", 400, Null, <<>>)
          /\ UNCHANGED upd
     ELSE /\ upd' = [upd EXCEPT ![k] = [pc |-> "find", id |-> id,
                                       status |-> status, user |-> user,
                                       seen |-> "", wrote |-> FALSE,
                                       createdAt |-> 0]]
          /\ UNCHANGED response
  /\ UNCHANGED <<reports, media, analyses, activities, sub,
                 otherParts>>

\* Report.findByPk: the committed row, or 404 after a rollback.
updateReportStatusFind(k) ==
  /\ upd[k].pc = "find"
  /\ IF upd[k].id \notin 1..Len(reports)
     THEN /\ upd' = [upd EXCEPT ![k] = IdleCall]
          /\ response' = Reply("updateReportStatus", 404, Null, <<>>)
     ELSE /\ upd' = [upd EXCEPT ![k].seen = reports[upd[k].id].status,
                                ![k].pc = "save"]
          /\ UNCHANGED response
  /\ UNCHANGED <<reports, media, analyses, activities, sub,
                 otherParts>>

\* report.update({ status }, { transaction }): the UPDATE waits while
\* another transaction holds the row.
updateReportStatusSave(k) ==
  /\ upd[k].pc = "save"
  /\ IF SavesStatus(upd[k].seen, upd[k].status)
     THEN /\ RowLockedBy(upd[k].id) = {}
          /\ upd' = [upd EXCEPT ![k].wrote = TRUE, ![k].pc = "log"]
     ELSE upd' = [upd EXCEPT ![k].pc = "log"]
  /\ UNCHANGED <<reports, media, analyses, activities, response, sub,
                 otherParts>>

\* The entries created so far, committed or not.
Created ==
  Len(activities) + Cardinality({j \in UpdCalls : upd[j].pc = "commit"})

\* CaseActivity.create({...}, { transaction }): the entry gets its createdAt
\* now and becomes visible at the commit.
updateReportStatusLog(k) ==
  /\ upd[k].pc = "log"
  /\ upd' = [upd EXCEPT ![k].pc = "commit", ![k].createdAt = Created + 1]
  /\ UNCHANGED <<reports, media, analyses, activities, response, sub,
                 otherParts>>

\* transaction.commit(), then the 200 response with the instance's status.
updateReportStatusCommit(k) ==
  /\ upd[k].pc = "commit"
  /\ reports' = IF upd[k].wrote
                THEN [reports EXCEPT ![upd[k].id].status =
                        UpdatedStatus(@, upd[k].status)]
                ELSE reports
  /\ activities' = Append(activities,
                          [StatusActivity(upd[k].id, upd[k].user,
                                          upd[k].status)
                             EXCEPT !.createdAt = upd[k].createdAt])
  /\ response' = Reply("updateReportStatus", 200,
                       Val([id |-> upd[k].id, status |-> upd[k].status]),
                       <<>>)
  /\ upd' = [upd EXCEPT ![k] = IdleCall]
  /\ UNCHANGED <<media, analyses, sub,
                 otherParts>>

ConcSubmitStep ==
  /\ \E c \in RouteSubmissions : submitReport(c, "none")
  /\ UNCHANGED <<sub, upd, otherParts>>

\* The statuses the two calls ask for: the one a new report has, another
\* one, and one the validator rejects.
ConcStatusInputs == {"pending", "closed", "bogus"}

ConcBeginStep ==
  \E k \in UpdCalls, id \in 1..MaxReports, s \in ConcStatusInputs,
     u \in Actors : updateReportStatusBegin(k, id, s, u)

ConcFindStep == \E k \in UpdCalls : updateReportStatusFind(k)

ConcSaveStep == \E k \in UpdCalls : updateReportStatusSave(k)

ConcLogStep == \E k \in UpdCalls : updateReportStatusLog(k)

ConcCommitStep == \E k \in UpdCalls : updateReportStatusCommit(k)

ConcNext ==
  \/ ConcSubmitStep
  \/ ConcBeginStep
  \/ ConcFindStep
  \/ ConcSaveStep
  \/ ConcLogStep
  \/ ConcCommitStep

ConcSpec == Init /\ [][ConcNext]_vars

(***************************************************************************)
(* submitReport with an oracle that applies its own policy: the composite  *)
(* of its reply is not the weighted combination of the components.         *)
(***************************************************************************)
OwnPolicyScore ==
  OracleOk([OracleData(800, 600, 200, 1000) EXCEPT !.emergencyScore = 900])

TrustSubmissions ==
  RouteSubmissions
    \cup { Request("u1", FALSE, "cyber", 30, 0, OwnPolicyScore),
           Request(NoUser, TRUE, "physical", 20, 0, OracleFail) }

TrustSubmitStep ==
  /\ \E c \in TrustSubmissions, f \in SubmitFailures : submitReport(c, f)
  /\ UNCHANGED <<sub, upd, otherParts>>

TrustNext == TrustSubmitStep \/ QueueStep \/ ReadStep

TrustSpec == Init /\ [][TrustNext]_vars

(***************************************************************************)
(* submitReport on requests that carry a location.                         *)
(***************************************************************************)
Locations ==
  { Location("json", 22, 88), Location("json", 91, 88),
    Location("json", 22, 181), Location("fields", 22, 88),
    Location("fields", 91, 88), Location("fields", 22, -181) }

LocatedSubmissions ==
  { Located(c, loc) :
      c \in { Request("u1", FALSE, "physical", 20, 1, HighScore),
              Request(NoUser, FALSE, "other", 25, 0, LowScore),
              Request(NoUser, TRUE, "physical", 20, 0, OracleFail) },
      loc \in Locations }

LocatedSubmitStep ==
  /\ \E c \in LocatedSubmissions : submitReport(c, "none")
  /\ UNCHANGED <<sub, upd, otherParts>>

LocationNext == LocatedSubmitStep \/ QueueStep \/ ReadStep

LocationSpec == Init /\ [][LocationNext]_vars

(***************************************************************************)
(* The mock server (app.js): optionalAuthenticate and the role guards in   *)
(* front of its handlers.  req is the request passing the middleware chain *)
(* of its route, <<>> when there is none; ran lists the handlers that ran. *)
(***************************************************************************)
MaxHandled == 2

\* mockUsers, without the fields the guards do not read.
MockUsers ==
  { [id |-> "1", username |-> "admin", role |-> "agency_admin"],
    [id |-> "2", username |-> "user", role |-> "citizen"] }

\* The Authorization header of a request: none, or a scheme with a token
\* that jwt.verify accepts (signed) or throws on, carrying a user id.
NoHeader == [scheme |-> "none", signed |-> FALSE, id |-> ""]

Header(scheme, signed, id) == [scheme |-> scheme, signed |-> signed, id |-> id]

Headers ==
  { NoHeader, Header("Basic", TRUE, "1"), Header("Bearer", FALSE, "1"),
    Header("Bearer", TRUE, "1"), Header("Bearer", TRUE, "2"),
    Header("Bearer", TRUE, "9") }

\* optionalAuthenticate: req.user is the user of a verified Bearer token,
\* and null for no header, another scheme, a token jwt.verify throws on, or
\* an id no user has; next() is called in every case.
optionalAuthenticate(h) ==
  IF h.scheme # "Bearer" THEN Null
  ELSE IF ~h.signed THEN Null
  ELSE LET found == {u \in MockUsers : u.id = h.id} IN
    IF found = {} THEN Null ELSE Val(CHOOSE u \in found : TRUE)

\* Mutant of authorize: the role is not compared.
authorizeAnyUser(roles, user) == IF user = Null THEN 401 ELSE 0

\* authorize(roles) of app.js: the status it answers, 0 when it calls next().
authorize(roles, user) ==
  IF user = Null THEN 401
  ELSE IF user[1].role \notin roles THEN 403
  ELSE 0

\* roleMiddleware(roles) of middleware/roleMiddleware.js, likewise.
roleMiddleware(roles, user) ==
  IF user = Null THEN 401
  ELSE IF user[1].role \notin roles THEN 403
  ELSE 0

\* The guarded routes of app.js with their middleware chains.
GuardedRoutes ==
  { [path |-> "/api/admin/dashboard",
     chain |-> <<"optionalAuthenticate", "authorize", "handler">>,
     roles |-> {"agency_admin", "admin"}, code |-> 200],
    [path |-> "/api/complaints/submit",
     chain |-> <<"optionalAuthenticate", "requireUser", "roleMiddleware",
                 "handler">>,
     roles |-> {"user", "citizen", "agency_staff", "agency_admin", "admin"},
     code |-> 201] }

Stage == req[1].route.chain[req[1].at]

\* What the mock server's middleware never touches.
notGuard ==
  <<reports, media, analyses, activities, sub, upd, userRows, auth, route>>

receive(r, h) ==
  /\ req = <<>>
  /\ Len(ran) < MaxHandled
  /\ req' = <<[route |-> r, authorization |-> h, user |-> Null, at |-> 1]>>
  /\ UNCHANGED <<ran, response, notGuard>>

optionalAuthenticateStep ==
  /\ req # <<>>
  /\ Stage = "optionalAuthenticate"
  /\ req' = <<[req[1] EXCEPT !.user = optionalAuthenticate(req[1].authorization),
                             !.at = @ + 1]>>
  /\ UNCHANGED <<ran, response, notGuard>>

\* The inline check of /api/complaints/submit: if (!req.user) 401.
requireUserStep ==
  /\ req # <<>>
  /\ Stage = "requireUser"
  /\ IF req[1].user = Null
     THEN /\ response' = Reply(req[1].route.path, 401, Null, <<>>)
          /\ req' = <<>>
     ELSE /\ req' = <<[req[1] EXCEPT !.at = @ + 1]>>
          /\ UNCHANGED response
  /\ UNCHANGED <<ran, notGuard>>

\* A guard answers with its status, or calls next().
Guarded(status) ==
  /\ IF status # 0
     THEN /\ response' = Reply(req[1].route.path, status, Null, <<>>)
          /\ req' = <<>>
     ELSE /\ req' = <<[req[1] EXCEPT !.at = @ + 1]>>
          /\ UNCHANGED response
  /\ UNCHANGED <<ran, notGuard>>

authorizeStep ==
  /\ req # <<>>
  /\ Stage = "authorize"
  /\ Guarded(authorize(req[1].route.roles, req[1].user))

roleMiddlewareStep ==
  /\ req # <<>>
  /\ Stage = "roleMiddleware"
  /\ Guarded(roleMiddleware(req[1].route.roles, req[1].user))

\* The route's handler runs and answers.
handlerStep ==
  /\ req # <<>>
  /\ Stage = "handler"
  /\ ran' = Append(ran, [path |-> req[1].route.path, user |-> req[1].user])
  /\ response' = Reply(req[1].route.path, req[1].route.code, Null, <<>>)
  /\ req' = <<>>
  /\ UNCHANGED notGuard

ReceiveStep == \E r \in GuardedRoutes, h \in Headers : receive(r, h)

GuardNext ==
  \/ ReceiveStep
  \/ optionalAuthenticateStep
  \/ requireUserStep
  \/ authorizeStep
  \/ roleMiddlewareStep
  \/ handlerStep

GuardSpec == Init /\ [][GuardNext]_vars

(***************************************************************************)
(* The client: AuthProvider (context/AuthContext) and ProtectedRoute.      *)
(* auth holds the provider's state, localStorage and the current path,     *)
(* <<>> before the app is loaded; route holds the mounted ProtectedRoute,  *)
(* <<>> when none is mounted.  Every state is one committed render; an     *)
(* effect flag says that the component's effect runs after this render.    *)
(***************************************************************************)
MaxAttempts == 3

MaxLoads == 2

\* The users /api/auth/me answers with, by the id the token carries.
ServerUsers == MockUsers

\* localStorage 'user': a stored copy, possibly with a role the server has
\* changed since.
StoredUsers ==
  MockUsers \cup {[id |-> "2", username |-> "user", role |-> "agency_admin"]}

\* The routes of App.tsx wrapped in ProtectedRoute, with their roles prop.
ProtectedPaths ==
  { [path |-> "/report", roles |-> {}],
    [path |-> "/dashboard", roles |-> {"admin", "agency_admin"}] }

\* validateToken resolves: throttled, 200, 401 (or another failure that
\* clears the credentials), 5xx or network error.
TokenOutcomes == {"throttled", "ok", "unauthorized", "unavailable"}

notClient ==
  <<reports, media, analyses, activities, response, sub, upd, req, ran,
    userRows>>

\* roles.includes(user.role || '') when roles is non-empty, else true.
HasRole(roles, user) == IF roles # {} THEN user[1].role \in roles ELSE TRUE

\* What ProtectedRoute's render returns (ProtectedRoute.tsx 129-179).
View(a, r) ==
  IF a.loading \/ r.isVerifying THEN "spinner"
  ELSE IF r.error THEN "error"
  ELSE IF ~r.isAuthenticated THEN "/login"
  ELSE IF r.roles # {} /\ ~r.hasRequiredRole THEN "/"
  ELSE "children"

\* useState initial values of ProtectedRoute; its effect runs after mount.
MountedRoute(p) ==
  [ path |-> p.path, roles |-> p.roles, isVerifying |-> TRUE,
    isAuthenticated |-> FALSE, hasRequiredRole |-> FALSE, error |-> FALSE,
    attempts |-> 0, validationInProgress |-> FALSE, call |-> <<>>,
    retryTimer |-> <<>>, effect |-> TRUE ]

\* validateToken of the render whose currentUser is user, resolving with
\* outcome o: the user it returns.
validateToken(a, user, o) ==
  IF a.token = Null THEN Null
  ELSE IF o = "throttled" THEN user
  ELSE IF o = "ok"
    THEN LET found == {u \in ServerUsers : u.id = a.token[1]} IN
         IF found = {} THEN Null ELSE Val(CHOOSE u \in found : TRUE)
  ELSE IF o = "unauthorized" THEN Null
  ELSE user

\* The outcomes that can happen: without a token validateToken returns null
\* at once (one outcome stands for it), the throttle needs a validation or
\* login before the render the function is from, a 200 needs a user behind
\* the token.
Possible(a, validated, o) ==
  IF a.token = Null THEN o = "unauthorized"
  ELSE IF o = "throttled" THEN validated
  ELSE IF o = "ok" THEN \E u \in ServerUsers : u.id = a.token[1]
  ELSE TRUE

\* validateToken's own writes: setLastValidationTime before the fetch, and
\* localStorage cleared on 401.
Fetched(a, o) == a.token # Null /\ o # "throttled"

Validated(a, o) ==
  IF ~Fetched(a, o) THEN a
  ELSE IF o = "unauthorized"
    THEN [a EXCEPT !.validated = TRUE, !.token = Null, !.storedUser = Null]
  ELSE [a EXCEPT !.validated = TRUE]

\* validateAuthentication of the render whose auth.currentUser is user
\* (ProtectedRoute.tsx 52-113), up to its await; validated tells whether
\* that render's lastValidationTime was set.
validateAuthentication(r, user, validated) ==
  IF r.validationInProgress THEN r
  ELSE IF user = Null
    THEN [r EXCEPT !.validationInProgress = TRUE, !.isVerifying = TRUE,
                   !.error = FALSE, !.attempts = @ + 1,
                   !.call = <<[user |-> user, validated |-> validated]>>]
  ELSE [r EXCEPT !.isVerifying = FALSE, !.error = FALSE, !.attempts = @ + 1,
                 !.isAuthenticated = TRUE,
                 !.hasRequiredRole = HasRole(r.roles, user)]

\* The effect of ProtectedRoute (35-127) after a render with context a.
RouteEffect(a, r) ==
  IF ~a.loading /\ a.currentUser # Null
  THEN [r EXCEPT !.isAuthenticated = TRUE,
                 !.hasRequiredRole = HasRole(r.roles, a.currentUser),
                 !.isVerifying = FALSE, !.retryTimer = <<>>]
  ELSE [validateAuthentication(r, a.currentUser, a.validated) EXCEPT
          !.retryTimer = <<[isAuthenticated |-> r.isAuthenticated,
                            attempts |-> r.attempts,
                            user |-> a.currentUser,
                            validated |-> a.validated]>>]

\* The state of ProtectedRoute a render reads.
RouteState(r) ==
  <<r.isVerifying, r.isAuthenticated, r.hasRequiredRole, r.error, r.attempts>>

\* The route's effect runs after a render in which auth (a new object in
\* every provider render), attempts, or roles (a new [] in every render of
\* a route without the prop) changed.
EffectDue(r, s, again) ==
  \/ s.effect
  \/ again
  \/ s.attempts # r.attempts
  \/ s.roles = {} /\ RouteState(s) # RouteState(r)

\* The provider's effect depends on validateToken, a new function whenever
\* currentUser or lastValidationTime changed; runs beyond MaxLoads are cut.
LoadDue(a, changed) == a.effect \/ (changed /\ a.started < MaxLoads)

\* The effect of AuthProvider, loadUserFromStorage, up to its first await:
\* with a token and a stored user the stored user is shown and a validation
\* is started, otherwise nobody is logged in.
loadUserFromStorage(a) ==
  IF a.token # Null /\ a.storedUser # Null
  THEN [a EXCEPT !.loading = TRUE, !.currentUser = a.storedUser,
                 !.loads = Append(@, [user |-> a.currentUser,
                                      validated |-> a.validated]),
                 !.started = @ + 1]
  ELSE [a EXCEPT !.loading = FALSE, !.currentUser = Null]

\* setCurrentUser changes the state for every object JSON.parse or the
\* server hands out, and for null when somebody was logged in.
UserSet(a, b) == b.currentUser # Null \/ a.currentUser # Null

\* The browser opens the application at path p with localStorage holding
\* token tok and user su: both as login left them, or neither.
appLoads(p, tok, su) ==
  /\ auth = <<>>
  /\ auth' = <<[ currentUser |-> Null, loading |-> TRUE, token |-> tok,
                 storedUser |-> su, validated |-> FALSE, effect |-> TRUE,
                 loads |-> <<>>, started |-> 0, path |-> p ]>>
  /\ route' = LET here == {q \in ProtectedPaths : q.path = p} IN
              IF here = {} THEN <<>>
              ELSE <<MountedRoute(CHOOSE q \in here : TRUE)>>
  /\ UNCHANGED notClient

\* A navigation to another path: the route element there is mounted anew.
navigate(p) ==
  /\ auth # <<>>
  /\ auth[1].path # p
  /\ auth' = <<[auth[1] EXCEPT !.path = p]>>
  /\ route' = LET here == {q \in ProtectedPaths : q.path = p} IN
              IF here = {} THEN <<>>
              ELSE <<MountedRoute(CHOOSE q \in here : TRUE)>>
  /\ UNCHANGED notClient

\* The effects of one committed render, children first: Navigate's (the
\* redirect), ProtectedRoute's, AuthProvider's; then the next render.
flushEffects ==
  /\ auth # <<>>
  /\ LET a == auth[1]
         mounted == route # <<>>
         redirect == mounted /\ View(a, route[1]) \in {"/login", "/"}
         b == IF a.effect THEN loadUserFromStorage([a EXCEPT !.effect = FALSE])
              ELSE a
         again == a.effect /\ (a.loading # b.loading \/ UserSet(a, b))
     IN
     /\ a.effect \/ (mounted /\ route[1].effect) \/ redirect
     /\ IF redirect
        THEN /\ route' = <<>>
             /\ auth' = <<[b EXCEPT !.path = View(a, route[1]),
                              !.effect = LoadDue(b, a.effect /\ UserSet(a, b))]>>
        ELSE /\ auth' = <<[b EXCEPT
                              !.effect = LoadDue(b, a.effect /\ UserSet(a, b))]>>
             /\ IF ~mounted THEN route' = <<>>
                ELSE LET r == route[1]
                         s == IF r.effect
                              THEN RouteEffect(a, [r EXCEPT !.effect = FALSE])
                              ELSE r
                     IN /\ s.attempts <= MaxAttempts
                        /\ route' = <<[s EXCEPT !.effect =
                                          EffectDue(r, s, again)]>>
  /\ UNCHANGED notClient

\* The validateToken call ProtectedRoute awaits resolves with outcome o
\* (ProtectedRoute.tsx 72-90, 109-112).
validateSettle(o) ==
  /\ auth # <<>> /\ route # <<>>
  /\ route[1].call # <<>>
  /\ Possible(auth[1], route[1].call[1].validated, o)
  /\ LET a == auth[1]
         r == route[1]
         user == validateToken(a, r.call[1].user, o)
         b == Validated(a, o)
         s == [r EXCEPT !.isAuthenticated = (user # Null),
                        !.hasRequiredRole = (user # Null /\ HasRole(r.roles, user)),
                        !.isVerifying = FALSE,
                        !.validationInProgress = FALSE,
                        !.call = <<>>]
     IN /\ auth' = <<[b EXCEPT !.effect = LoadDue(b, Fetched(a, o))]>>
        /\ route' = <<[s EXCEPT !.effect = EffectDue(r, s, Fetched(a, o))]>>
  /\ UNCHANGED notClient

\* A loadUserFromStorage run passes its delay and its validateToken resolves
\* with outcome o (AuthProvider, 343-371).
loadSettle(o) ==
  /\ auth # <<>>
  /\ auth[1].loads # <<>>
  /\ Possible(auth[1], Head(auth[1].loads).validated, o)
  /\ LET a == auth[1]
         user == validateToken(a, Head(a.loads).user, o)
         v == Validated(a, o)
         b == IF user # Null
              THEN [v EXCEPT !.currentUser = user, !.storedUser = user,
                             !.loading = FALSE, !.loads = Tail(@)]
              ELSE [v EXCEPT !.currentUser = Null, !.storedUser = Null,
                             !.token = Null, !.loading = FALSE,
                             !.loads = Tail(@)]
         again == a.loading \/ UserSet(a, b) \/ Fetched(a, o)
     IN /\ auth' = <<[b EXCEPT !.effect =
                         LoadDue(b, UserSet(a, b) \/ Fetched(a, o))]>>
        /\ route' = IF route = <<>> THEN <<>>
                    ELSE <<[route[1] EXCEPT !.effect = @ \/ again]>>
  /\ UNCHANGED notClient

\* The retry timer of the last effect run fires (ProtectedRoute.tsx 119-124)
\* with the values of that render.
retryTimerFires ==
  /\ auth # <<>> /\ route # <<>>
  /\ route[1].retryTimer # <<>>
  /\ LET r == route[1]
         t == r.retryTimer[1]
         s == IF ~t.isAuthenticated /\ t.attempts < 2 /\ t.user = Null
              THEN validateAuthentication([r EXCEPT !.retryTimer = <<>>],
                                          t.user, t.validated)
              ELSE [r EXCEPT !.retryTimer = <<>>]
     IN /\ s.attempts <= MaxAttempts
        /\ route' = <<[s EXCEPT !.effect = EffectDue(r, s, FALSE)]>>
  /\ UNCHANGED <<auth, notClient>>

\* login(userData, token), called by the Login page (Login.js 96).
login(u) ==
  /\ auth # <<>>
  /\ auth[1].path = "/login"
  /\ auth' = <<[auth[1] EXCEPT !.token = Val(u.id), !.storedUser = Val(u),
                               !.currentUser = Val(u), !.validated = TRUE,
                               !.effect = LoadDue(auth[1], TRUE)]>>
  /\ UNCHANGED <<route, notClient>>

\* logout(), open to every consumer of the context.
logout ==
  /\ auth # <<>>
  /\ auth[1].currentUser # Null
  /\ auth' = <<[auth[1] EXCEPT !.token = Null, !.storedUser = Null,
                               !.currentUser = Null,
                               !.effect = LoadDue(auth[1], TRUE)]>>
  /\ route' = IF route = <<>> THEN <<>>
              ELSE <<[route[1] EXCEPT !.effect = TRUE]>>
  /\ UNCHANGED notClient

ClientPaths == {"/", "/login"} \cup {p.path : p \in ProtectedPaths}

AppLoadsStep ==
  \E p \in ClientPaths :
    \/ appLoads(p, Null, Null)
    \/ \E u \in StoredUsers : appLoads(p, Val(u.id), Val(u))

NavigateStep == \E p \in ClientPaths : navigate(p)

ValidateSettleStep == \E o \in TokenOutcomes : validateSettle(o)

LoadSettleStep == \E o \in TokenOutcomes : loadSettle(o)

LoginStep == \E u \in ServerUsers : login(u)

ClientNext ==
  \/ AppLoadsStep
  \/ NavigateStep
  \/ flushEffects
  \/ ValidateSettleStep
  \/ LoadSettleStep
  \/ retryTimerFires
  \/ LoginStep
  \/ logout

ClientSpec == Init /\ [][ClientNext]_vars

(***************************************************************************)
(* Users and agency staff: register (authController) and addStaffToAgency, *)
(* removeStaffFromAgency (agencyController).  userRows is the users table, *)
(* a user's id its index.                                                  *)
(***************************************************************************)
MaxUsers == 2

\* The agencies table; createAgency is not among the operations here.
Agencies == {"g1", "g2"}

\* req.params.id: an agency, or an id no agency has.
AgencyIds == Agencies \cup {"g9"}

\* body('role').isIn(['agency_admin', 'agency_staff']) (agencyRoutes 98).
StaffRoles == {"agency_admin", "agency_staff"}

RoleInputs == StaffRoles \cup {"citizen"}

Usernames == {"carol", "dave", "erin"}

\* The statement of a staff handler the database rejects, if any.
StaffFailures == {"none", "update", "commit"}

notStaff ==
  <<reports, media, analyses, activities, sub, upd, req, ran, auth, route>>

\* User.create of register: role 'citizen', agencyId left at its default.
NewUser(name) ==
  [ id |-> Len(userRows) + 1, username |-> name, role |-> "citizen",
    agencyId |-> Null ]

\* user.update({ role, agencyId }) of addStaffToAgency.
AgencyMember(u, agencyId, role) ==
  [u EXCEPT !.role = role, !.agencyId = Val(agencyId)]

\* Mutant of FormerMember: only the role is reset.
FormerMemberKeepsAgency(u) == [u EXCEPT !.role = "citizen"]

\* user.update({ role: 'citizen', agencyId: null }) of removeStaffFromAgency.
FormerMember(u) == [u EXCEPT !.role = "citizen", !.agencyId = Null]

\* POST /api/auth/register.
register(name, fails) ==
  /\ Len(userRows) < MaxUsers
  /\ IF \E i \in 1..Len(userRows) : userRows[i].username = name
     THEN /\ response' = Reply("register", 400, Null, <<>>)
          /\ UNCHANGED userRows
     ELSE IF fails
     THEN /\ response' = Reply("register", 500, Null, <<>>)
          /\ UNCHANGED userRows
     ELSE /\ userRows' = Append(userRows, NewUser(name))
          /\ response' = Reply("register", 201, Val(NewUser(name)), <<>>)
  /\ UNCHANGED notStaff

\* POST /api/agencies/:id/staff behind its validators.  The statements run
\* in one transaction: a failure rolls it back and goes to next(error).
addStaffToAgency(agencyId, userId, role, f) ==
  /\ IF role \notin StaffRoles
     THEN /\ response' = Reply("addStaffToAgency", 400, Null, <<>>)
          /\ UNCHANGED userRows
     ELSE IF agencyId \notin Agencies \/ userId \notin 1..Len(userRows)
     THEN /\ response' = Reply("addStaffToAgency", 404, Null, <<>>)
          /\ UNCHANGED userRows
     ELSE IF f # "none"
     THEN /\ response' = Reply("addStaffToAgency", 500, Null, <<>>)
          /\ UNCHANGED userRows
     ELSE LET user == AgencyMember(userRows[userId], agencyId, role) IN
          /\ userRows' = [userRows EXCEPT ![userId] = user]
          /\ response' = Reply("addStaffToAgency", 200, Val(user), <<>>)
  /\ UNCHANGED notStaff

\* DELETE /api/agencies/:id/staff/:userId: the user is looked up by id and
\* agencyId together.
removeStaffFromAgency(agencyId, userId, f) ==
  /\ IF \/ agencyId \notin Agencies
        \/ userId \notin 1..Len(userRows)
        \/ userRows[userId].agencyId # Val(agencyId)
     THEN /\ response' = Reply("removeStaffFromAgency", 404, Null, <<>>)
          /\ UNCHANGED userRows
     ELSE IF f # "none"
     THEN /\ response' = Reply("removeStaffFromAgency", 500, Null, <<>>)
          /\ UNCHANGED userRows
     ELSE LET user == FormerMember(userRows[userId]) IN
          /\ userRows' = [userRows EXCEPT ![userId] = user]
          /\ response' = Reply("removeStaffFromAgency", 200, Val(user), <<>>)
  /\ UNCHANGED notStaff

RegisterStep == \E name \in Usernames, fails \in BOOLEAN : register(name, fails)

AddStaffStep ==
  \E agencyId \in AgencyIds, userId \in 1..(MaxUsers + 1),
     role \in RoleInputs, f \in StaffFailures :
    addStaffToAgency(agencyId, userId, role, f)

RemoveStaffStep ==
  \E agencyId \in AgencyIds, userId \in 1..(MaxUsers + 1),
     f \in StaffFailures :
    removeStaffFromAgency(agencyId, userId, f)

StaffNext == RegisterStep \/ AddStaffStep \/ RemoveStaffStep

StaffSpec == Init /\ [][StaffNext]_vars

(***************************************************************************)
(* Properties.                                                             *)
(***************************************************************************)
\* A call of submitReport with valid fields, a failing oracle call and no
\* failing database statement.
FallbackCall(c) ==
  /\ response'.op = "submitReport"
  /\ c.oracle.kind = "fail"
  /\ validateReport(c) = {}
  /\ submitReport(c, "none")

\* The body of a response carries the unavailability note.
HasUnavailableNote(body) ==
  /\ "aiNotes" \in DOMAIN body
  /\ body.aiNotes = UnavailableNote

\* C1, as stated: a failing oracle call never fails a valid submission whose
\* persistence succeeds; the response is a success, it contains the created
\* report with emergencyScore 0 and a note that the analysis is unavailable,
\* and the report is committed with status pending.
C1_ResponseCarriesNote ==
  [][\A c \in Submissions :
       FallbackCall(c) =>
         /\ response'.code = 201
         /\ response'.report # Null
         /\ response'.report[1].emergencyScore = Val(0)
         /\ HasUnavailableNote(response'.report[1])
         /\ Len(reports') = Len(reports) + 1
         /\ reports'[Len(reports')].status = "pending"]_vars

\* C1, amended: a failing oracle call never fails a valid submission whose
\* persistence succeeds; the response is a success containing the created
\* report with emergencyScore 0, the report is committed with status pending,
\* and the note that the analysis is unavailable is recorded in the report's
\* persisted Analysis (aiNotes), not in the response.
C1_OracleFailureNeverFailsSubmission ==
  [][\A c \in Submissions :
       FallbackCall(c) =>
         /\ response'.code = 201
         /\ response'.report # Null
         /\ response'.report[1].emergencyScore = Val(0)
         /\ ~HasUnavailableNote(response'.report[1])
         /\ Len(reports') = Len(reports) + 1
         /\ response'.report[1].id = Len(reports')
         /\ reports'[Len(reports')].status = "pending"
         /\ \E i \in 1..Len(analyses') :
              /\ analyses'[i].reportId = Len(reports')
              /\ analyses'[i].aiNotes = UnavailableNote]_vars

\* C1, witness: a submission answered 201 with score 0 whose committed
\* report is pending and has the fallback Analysis.
C1_Witness ==
  /\ response.op = "submitReport"
  /\ response.code = 201
  /\ response.report[1].emergencyScore = Val(0)
  /\ reports[response.report[1].id].status = "pending"
  /\ \E i \in 1..Len(analyses) :
       /\ analyses[i].reportId = response.report[1].id
       /\ analyses[i].aiNotes = UnavailableNote

\* Every list a triage-queue read can return in the current state.
AllQueueResults == UNION {QueueResults(limit) : limit \in Limits}

\* The report has an Analysis with spam_probability > 0.8.
SpamAnalysed(id) ==
  \E i \in 1..Len(analyses) :
    /\ analyses[i].reportId = id
    /\ analyses[i].spamProbability > SpamThreshold

\* C2: in every reachable state, a report whose Analysis has
\* spam_probability > 0.8 has isSpam = true and appears in no result of
\* getPriorityQueue, whatever its emergency score; the queue returns only
\* reports with isSpam = false.
C2_SpamNeverQueued ==
  /\ \A id \in 1..Len(reports) : SpamAnalysed(id) => reports[id].isSpam
  /\ \A rows \in AllQueueResults : \A k \in 1..Len(rows) :
       /\ ~SpamAnalysed(rows[k].id)
       /\ rows[k].isSpam = FALSE
       /\ reports[rows[k].id].isSpam = FALSE
  /\ response.op = "getPriorityQueue" =>
       \A k \in 1..Len(response.reports) :
         ~SpamAnalysed(response.reports[k].id)

\* C2, witness: the queue was read while an open report with a high score
\* and spam_probability > 0.8 was in the store, and it returned another
\* report with a lower score.
C2_Witness ==
  /\ response.op = "getPriorityQueue"
  /\ Len(response.reports) > 0
  /\ \E id \in 1..Len(reports) :
       /\ SpamAnalysed(id)
       /\ reports[id].status = "pending"
       /\ reports[id].emergencyScore # Null
       /\ \A k \in 1..Len(response.reports) :
            NumOf(response.reports[k].emergencyScore)
              < NumOf(reports[id].emergencyScore)

\* C3: in every reachable state, every report returned by getPriorityQueue
\* has status pending or reviewing; a report whose status is assigned,
\* resolved or closed is in no result, also after updateReportStatus calls.
C3_OnlyOpenReportsQueued ==
  /\ \A rows \in AllQueueResults : \A k \in 1..Len(rows) :
       /\ rows[k].status \in {"pending", "reviewing"}
       /\ reports[rows[k].id].status = rows[k].status
  /\ response.op = "getPriorityQueue" =>
       \A k \in 1..Len(response.reports) :
         reports[response.reports[k].id].status \in {"pending", "reviewing"}

\* C3, witness: the queue was read after status updates had moved one
\* report to reviewing and another out of the open statuses; it returned the
\* first and not the second.
C3_Witness ==
  /\ response.op = "getPriorityQueue"
  /\ Len(activities) > 0
  /\ \E id \in 1..Len(reports) :
       /\ reports[id].status \in {"assigned", "resolved", "closed"}
       /\ reports[id].isSpam = FALSE
  /\ \E k \in 1..Len(response.reports) :
       response.reports[k].status = "reviewing"

\* C4, as stated: every list returned by getPriorityQueue is sorted by
\* emergencyScore descending, a.emergencyScore >= b.emergencyScore for
\* every adjacent pair (a, b), also when reports of the fallback path are
\* in the store (checked on the stores in which every report has its
\* Analysis, built from an oracle response or by the fallback).
C4_QueueSortedDescending ==
  (\A id \in 1..Len(reports) : Len(AnalysesOf(id)) = 1) =>
    \A rows \in AllQueueResults : \A k \in 1..(Len(rows) - 1) :
      NumOf(rows[k].emergencyScore) >= NumOf(rows[k + 1].emergencyScore)

\* C4, failing input: a fallback report (stored score NULL) is returned
\* ahead of a report the oracle scored above 0.
C4_FailingInput ==
  /\ response.op = "getPriorityQueue"
  /\ \E k \in 1..(Len(response.reports) - 1) :
       /\ response.reports[k].emergencyScore = Null
       /\ Len(response.reports[k].analysis) = 1
       /\ response.reports[k].analysis[1].aiNotes = UnavailableNote
       /\ NumOf(response.reports[k + 1].emergencyScore) > 0

\* The weighted combination, in scaled integers:
\* 10 * emergencyScore = 4 * text + 5 * media + 1 * credibility.
WeightedSum(a) ==
  10 * a.emergencyScore =
    4 * a.textSeverityScore + 5 * a.mediaSeverityScore
      + a.userCredibilityScore

IsFallback(a) == a.aiNotes = UnavailableNote

AddedAnalysis == analyses'[Len(analyses')]

FallbackShape(a, id) ==
  /\ a.reportId = id
  /\ a.textSeverityScore = 0
  /\ a.mediaSeverityScore = 0
  /\ a.spamProbability = 0
  /\ a.emergencyScore = 0
  /\ a.aiNotes = UnavailableNote

C7_AtMostOneAnalysis ==
  [][/\ \A i \in 1..Len(analyses) :
          Len(analyses') >= i /\ analyses'[i] = analyses[i]
     /\ \A i, j \in 1..Len(analyses') :
          analyses'[i].reportId = analyses'[j].reportId => i = j
     /\ \A i \in 1..Len(analyses') :
          analyses'[i].reportId \in 1..Len(reports')]_vars

\* C7, witness: a submission has just failed with a server error and left
\* nothing behind, while the store holds a report with the one Analysis
\* built from the oracle's response.
C7_Witness ==
  /\ response.op = "submitReport"
  /\ response.code = 500
  /\ Len(reports) = 1
  /\ reports[1].emergencyScore # Null
  /\ Len(analyses) = 1
  /\ analyses[1].reportId = 1
  /\ ~IsFallback(analyses[1])

\* The database statement named by f is executed by submitReport on c.
Executes(c, f) ==
  \/ f \in {"report", "commit"}
  \/ f = "media" /\ c.nFiles > 0
  \/ f \in {"analysis", "update"} /\ c.oracle.kind = "ok"
  \/ f = "fallback" /\ c.oracle.kind = "fail"

\* C8: submitReport is all-or-nothing on persistence: when creating the
\* Report, one of its Media rows or its Analysis row fails (or the update of
\* the report's score, or the commit), the submission is answered with a
\* server error and no Report, Media or Analysis row of it is visible
\* afterwards: the committed store is unchanged.
C8_SubmissionAllOrNothing ==
  [][response'.op = "submitReport" =>
       \/ /\ response'.code = 500
          /\ reports' = reports
          /\ media' = media
          /\ analyses' = analyses
       \/ \A c \in Submissions, f \in SubmitFailures :
            ~(/\ validateReport(c) = {}
              /\ Executes(c, f)
              /\ submitReport(c, f))]_vars

\* C8, witness: a submission was answered with a server error and the store
\* holds only complete reports: one with its Media row and Analysis, none
\* without Analysis, no row of a report that does not exist.
C8_Witness ==
  /\ response.op = "submitReport"
  /\ response.code = 500
  /\ Len(reports) = 1
  /\ media = {[reportId |-> 1, file |-> 1]}
  /\ Len(analyses) = 1
  /\ analyses[1].reportId = 1

\* The status and the activity log are as before the call.
StatusAndLogUnchanged == reports' = reports /\ activities' = activities

C10_StatusMovesForward ==
  [][\A id \in 1..Len(reports) :
       StatusRank(reports'[id].status) >= StatusRank(reports[id].status)]_vars

\* C10, amended: over any sequence of updateReportStatus calls a report's
\* status is the one the last committed call named, whatever status the
\* report had: the order pending, reviewing, assigned, resolved, closed is
\* not enforced and a call can move a report to a status that precedes its
\* current one.
C10_StatusFollowsRequest ==
  [][response'.op = "updateReportStatus" =>
       \A id \in 1..Len(reports), st \in Statuses, u \in Actors :
         \/ /\ reports'[id].status = st
            /\ response'.report = Val([id |-> id, status |-> st])
         \/ ~updateReportStatus(id, st, u, "none")]_vars

\* C10, witness: a report was moved to closed and then back to reviewing.
C10_Witness ==
  /\ Len(activities) = 2
  /\ activities[1].reportId = activities[2].reportId
  /\ activities[1].description = "closed"
  /\ activities[2].description = "reviewing"
  /\ reports[activities[2].reportId].status = "reviewing"

\* C11: on the normal scoring path submitReport sets report.isSpam to true
\* exactly when the oracle's spamProbability, kept in the report's Analysis,
\* is strictly greater than 0.8 (exactly 0.8 is not spam); isSpam stays
\* false on the fallback path and when no Analysis was written.
C11_SpamExactlyAboveThreshold ==
  \A id \in 1..Len(reports) :
    LET found == AnalysesOf(id) IN
    IF found # <<>> /\ ~IsFallback(found[1])
    THEN reports[id].isSpam <=> found[1].spamProbability > SpamThreshold
    ELSE reports[id].isSpam = FALSE

\* C11, witness: a report scored with spamProbability exactly 0.8 is not
\* spam, and a report scored with a higher probability is.
C11_Witness ==
  /\ \E id \in 1..Len(reports) :
       /\ AnalysesOf(id) # <<>>
       /\ AnalysesOf(id)[1].spamProbability = SpamThreshold
       /\ reports[id].isSpam = FALSE
  /\ \E id \in 1..Len(reports) :
       /\ AnalysesOf(id) # <<>>
       /\ AnalysesOf(id)[1].spamProbability > SpamThreshold
       /\ reports[id].isSpam = TRUE

\* A call of submitReport with valid fields and no failing database
\* statement, on which the oracle call fails (non-2xx, unreachable) or
\* answers with an empty body.
MalformedReplyCall(c) ==
  /\ response'.op = "submitReport"
  /\ c.oracle.kind \in {"fail", "empty"}
  /\ validateReport(c) = {}
  /\ submitReport(c, "none")

\* C12: an oracle reply that is non-2xx or has a malformed body makes
\* submitReport take the fallback path: the report ends with exactly one
\* Analysis, the fallback one, and no Analysis built from the reply.
C12_MalformedReplyTakesFallback ==
  [][\A c \in Submissions :
       MalformedReplyCall(c) =>
         /\ Len(analyses') = Len(analyses) + 1
         /\ FallbackShape(AddedAnalysis, Len(reports'))]_vars

\* C12, failing input: a submission on which the oracle answered with an
\* empty body was answered 201 and its report is committed without any
\* Analysis.
C12_FailingInput ==
  /\ response.op = "submitReport"
  /\ response.code = 201
  /\ AnalysesOf(response.report[1].id) = <<>>

\* C13: every submitReport call eventually returns a response to the
\* caller, even when the oracle never answers: a submission in flight
\* leads to a submission answered.
C13_SubmitEventuallyResponds == (sub # <<>>) ~> (sub = <<>>)

\* C13, failing input: a submission is waiting for the oracle.
C13_FailingInput == sub # <<>> /\ sub[1].pc = "awaitOracle"

\* A read of a report by id answered right after the 201 response of the
\* submission that created it, for a report that has its Analysis (built
\* from an oracle response or by the fallback).
ReadAfterSubmit ==
  /\ response.op = "submitReport"
  /\ response.code = 201
  /\ response'.op = "getReportById"
  /\ response'.code = 200
  /\ response'.report[1].id = response.report[1].id
  /\ Len(response'.report[1].analysis) = 1

\* Two report bodies agree on the fields the submission response carries.
SamePersistedFields(a, b) ==
  /\ a.id = b.id
  /\ a.incidentType = b.incidentType
  /\ a.descriptionLength = b.descriptionLength
  /\ a.isAnonymous = b.isAnonymous
  /\ a.status = b.status
  /\ a.emergencyScore = b.emergencyScore

\* C14: for every successful submitReport, on the normal and on the
\* fallback path, reading the report by id afterwards returns the same id,
\* incidentType, description, isAnonymous, status and emergencyScore as the
\* submission response, a repeated read returns the same again, and a read
\* changes nothing in the store.
C14_ReadReturnsSubmittedFields ==
  [][/\ ReadAfterSubmit =>
          SamePersistedFields(response'.report[1], response.report[1])
     /\ (response.op = "getReportById" /\ response'.op = "getReportById"
           /\ response.code = 200 /\ response'.code = 200
           /\ response'.report[1].id = response.report[1].id) =>
          response'.report = response.report
     /\ (response'.op = "getReportById" /\ response' # response) =>
          UNCHANGED <<reports, media, analyses, activities>>]_vars

\* C14, failing input: a report of the fallback path is read by id and its
\* emergencyScore is NULL.
C14_FailingInput ==
  /\ response.op = "getReportById"
  /\ response.code = 200
  /\ response.report[1].emergencyScore = Null
  /\ Len(response.report[1].analysis) = 1
  /\ IsFallback(response.report[1].analysis[1])

\* C15: a status update or a triage-queue read issued by an authenticated
\* user without an agency role (a citizen) is rejected before any mutation:
\* the call is not answered with a success, the report's status and the
\* activity log are unchanged and no queue data is returned.
C15_NonAgencyCallerRejected ==
  [][\A caller \in Callers \ {NoUser} :
       Users[caller].role \notin AgencyRoles =>
         /\ \A limit \in Limits :
              (response' # response /\ routeGetQueue(caller, limit)) =>
                response'.reports = <<>>
         /\ \A id \in 1..MaxReports, s \in Statuses :
              (response'.op = "updateReportStatus"
                 /\ routePatchStatus(caller, id, s, "none")) =>
                /\ response'.code # 200
                /\ reports' = reports
                /\ activities' = activities]_vars

\* C15, failing input: a citizen's call has closed a report and is in the
\* activity log.
C15_FailingInput ==
  \E i \in 1..Len(activities) :
    /\ Users[activities[i].userId].role = "citizen"
    /\ activities[i].description = "closed"
    /\ reports[activities[i].reportId].status = "closed"

\* The request's incidentType is outside {physical, cyber, harassment,
\* other}, or its description is empty or shorter than 20 characters.
InvalidFields(c) ==
  \/ c.incidentType \notin {"physical", "cyber", "harassment", "other"}
  \/ c.descriptionLength < MinDescriptionLength

\* C16: a submitReport call whose fields fail validation is rejected with a
\* validation error before persistence: no Report, Media or Analysis row
\* is created and the oracle is not called (the handler never gets to wait
\* for the oracle).
C16_InvalidSubmissionRejected ==
  [][\A c \in Submissions :
       InvalidFields(c) =>
         \A f \in SubmitFailures :
           submitReportBegin(c, f) =>
             /\ response'.op = "submitReport"
             /\ response'.code = 400
             /\ reports' = reports
             /\ media' = media
             /\ analyses' = analyses
             /\ sub' = <<>>]_vars

\* C16, witness: a submission was answered with a validation error while a
\* report of an earlier submission is in the store and none is in flight.
C16_Witness ==
  /\ response.op = "submitReport"
  /\ response.code = 400
  /\ Len(reports) = 1
  /\ sub = <<>>

\* C17: in every committed state a report that has no Analysis record has
\* emergencyScore null; and a report is created with status pending, isSpam
\* false and emergencyScore null: so it stands in its transaction while the
\* handler waits for the oracle.
C17_UnanalysedReportHasNoScore ==
  /\ \A id \in 1..Len(reports) :
       AnalysesOf(id) = <<>> => reports[id].emergencyScore = Null
  /\ (sub # <<>> /\ sub[1].pc = "awaitOracle") =>
       LET r == sub[1].tx.reports[sub[1].id] IN
         /\ r.status = "pending"
         /\ r.isSpam = FALSE
         /\ r.emergencyScore = Null

\* C17, witness: a committed report has no Analysis (the oracle answered
\* its submission with an empty body) while the report of another
\* submission has just been created and waits for the oracle.
C17_Witness ==
  /\ \E id \in 1..Len(reports) :
       AnalysesOf(id) = <<>> /\ reports[id].emergencyScore = Null
  /\ sub # <<>>
  /\ sub[1].pc = "awaitOracle"
  /\ sub[1].id = Len(reports) + 1

C18_FailingInput ==
  /\ response.op = "getPriorityQueue"
  /\ \E k \in 1..Len(response.reports) :
       /\ response.reports[k].isAnonymous
       /\ response.reports[k].reporter # Null
       /\ response.reports[k].reporter[1].username = "alice"

\* A queue read answered in this step.
QueueReadNow == response'.op = "getPriorityQueue" /\ response' # response

\* C19: a report's Analysis is committed before submitReport returns its
\* response, so a getPriorityQueue read made after the response shows the
\* report, when it is in the result, with the score of the response; and no
\* read observes a committed report of a still-running submission without
\* its Analysis.
C19_QueueShowsResponseScore ==
  [][/\ (response.op = "submitReport" /\ response.code = 201
           /\ QueueReadNow) =>
          \A k \in 1..Len(response'.reports) :
            response'.reports[k].id = response.report[1].id =>
              /\ response'.reports[k].analysis # <<>>
              /\ response'.reports[k].emergencyScore
                   = response.report[1].emergencyScore
     /\ (sub # <<>> /\ QueueReadNow) =>
          \A k \in 1..Len(response'.reports) :
            response'.reports[k].id = sub[1].id =>
              response'.reports[k].analysis # <<>>]_vars

\* C19, failing input: after the 201 response of a submission of the
\* fallback path (score 0 in the response) the queue returns the report
\* with its fallback Analysis and the score NULL.
C19_FailingInput ==
  /\ response.op = "getPriorityQueue"
  /\ sub = <<>>
  /\ \E k \in 1..Len(response.reports) :
       /\ response.reports[k].emergencyScore = Null
       /\ Len(response.reports[k].analysis) = 1
       /\ IsFallback(response.reports[k].analysis[1])

\* Call k commits in this step.
Commits(k) == upd[k].pc = "commit" /\ upd'[k].pc = "idle"

\* C20: two concurrent updateReportStatus calls on the same report are
\* serialized with last-writer-wins: under every interleaving both calls
\* commit (a call waiting for the row is waiting for a call that can go
\* on), after each commit the report's status is the one of the call that
\* committed, the last one in the end, and no activity entry is lost.
C20_LastCommitterWins ==
  [][\A k \in UpdCalls :
       /\ Commits(k) =>
            /\ reports'[upd[k].id].status = upd[k].status
            /\ activities' =
                 Append(activities,
                        [reportId |-> upd[k].id, userId |-> upd[k].user,
                         activityType |-> "status_update",
                         description |-> upd[k].status,
                         createdAt |-> upd[k].createdAt])
       /\ (upd[k].pc = "save" /\ RowLockedBy(upd[k].id) # {}) =>
            RowLockedBy(upd[k].id) \subseteq InFlight \ {k}]_vars

\* C20, failing input: both calls on the same report have committed, the
\* one that committed last asked for pending, and the report is closed.
C20_FailingInput ==
  /\ InFlight = {}
  /\ Len(activities) = 2
  /\ activities[1].reportId = activities[2].reportId
  /\ activities[1].description = "closed"
  /\ activities[2].description = "pending"
  /\ reports[activities[2].reportId].status = "closed"

\* The open, non-spam reports a queue result leaves out.
LeftOut(rows) ==
  {i \in 1..Len(reports) :
     QueueWhere(reports[i]) /\ \A k \in 1..Len(rows) : rows[k].id # i}

\* C21: getPriorityQueue returns at most limit reports (20 when no limit is
\* given), and they are the highest-scoring eligible ones: every eligible
\* report left out of the result has an emergencyScore no greater than that
\* of every returned report (a report without score counting as 0).
C21_QueueReturnsHighestScoring ==
  \A limit \in Limits : \A rows \in QueueResults(limit) :
    /\ Len(rows) <= QueueLimit(limit)
    /\ \A i \in LeftOut(rows), k \in 1..Len(rows) :
         NumOf(reports[i].emergencyScore) <= NumOf(rows[k].emergencyScore)

\* C21, failing input: a queue read with limit 1 returned a report of the
\* fallback path (stored score NULL) and left out an open, non-spam report
\* the oracle scored above 0.
C21_FailingInput ==
  /\ response.op = "getPriorityQueue"
  /\ Len(response.reports) = 1
  /\ response.reports[1].emergencyScore = Null
  /\ \E i \in LeftOut(response.reports) :
       NumOf(reports[i].emergencyScore) > 0

\* A call of submitReport with valid fields and no failing database
\* statement, on which the oracle replies with scores.
ScoredCall(c) ==
  /\ response'.op = "submitReport"
  /\ c.oracle.kind = "ok"
  /\ validateReport(c) = {}
  /\ submitReport(c, "none")

InRange(loc) ==
  /\ loc[1].lat >= -90 /\ loc[1].lat <= 90
  /\ loc[1].lng >= -180 /\ loc[1].lng <= 180

\* A call of submitReport, otherwise valid, with a location in the encoding
\* enc.
LocatedCall(c, enc) ==
  /\ response'.op = "submitReport"
  /\ c.location # Null
  /\ c.location[1].enc = enc
  /\ submitReport(c, "none")

\* The call is answered with a validation error and persists nothing when
\* the location is out of range, and stores the location on the report
\* otherwise.
LocationChecked(c) ==
  IF InRange(c.location)
  THEN /\ response'.code = 201
       /\ Len(reports') = Len(reports) + 1
       /\ reports'[Len(reports')].locationLat = Val(c.location[1].lat)
       /\ reports'[Len(reports')].locationLng = Val(c.location[1].lng)
  ELSE /\ response'.code = 400
       /\ UNCHANGED <<reports, media, analyses, activities>>

\* C23: a report submission whose location carries a latitude outside
\* [-90, 90] or a longitude outside [-180, 180] is rejected with a
\* validation error and persists nothing, for the location encoding the
\* submission interface defines (a location form field holding JSON with
\* lat, lng, address); an in-range location is stored on the report.
C23_LocationRangeEnforced ==
  [][\A c \in LocatedSubmissions :
       LocatedCall(c, "json") => LocationChecked(c)]_vars

\* C23, failing input: two submissions, each with a location, are committed
\* and a read of a report returns it without coordinates.
C23_FailingInput ==
  /\ Len(reports) = 2
  /\ response.op = "getReportById"
  /\ response.code = 200
  /\ response.report[1].locationLat = Null
  /\ response.report[1].locationLng = Null

\* The submission in flight is waiting for an oracle call that fails.
OracleCallFails ==
  /\ sub # <<>>
  /\ sub[1].pc = "awaitOracle"
  /\ sub[1].c.oracle.kind = "fail"
  /\ sub' # sub

\* C24: each submitReport call invokes the scoring oracle at most once:
\* there is a single attempt, and after a failure the handler goes straight
\* to the fallback (its Analysis is the next row written in the
\* transaction) without calling the oracle again.
C24_OracleCalledAtMostOnce ==
  [][/\ sub' # <<>> => sub'[1].oracleCalls <= 1
     /\ OracleCallFails =>
          /\ sub' # <<>>
          /\ sub'[1].pc = "commit"
          /\ sub'[1].oracleCalls = sub[1].oracleCalls
          /\ \/ sub'[1].threw /\ sub[1].failAt = "fallback"
             \/ /\ ~sub'[1].threw
                /\ sub'[1].tx.analyses
                     = Append(sub[1].tx.analyses,
                              FallbackAnalysis(sub[1].id, sub[1].c))]_vars

\* C24, witness: the one oracle call of a submission has failed and the
\* fallback Analysis is written in its transaction, not yet committed.
C24_Witness ==
  /\ sub # <<>>
  /\ sub[1].pc = "commit"
  /\ sub[1].c.oracle.kind = "fail"
  /\ sub[1].oracleCalls = 1
  /\ ~sub[1].threw
  /\ Len(sub[1].tx.analyses) = Len(analyses) + 1
  /\ IsFallback(sub[1].tx.analyses[Len(sub[1].tx.analyses)])

\* C25: in every committed state a report that has an Analysis record has
\* report.emergencyScore equal to analysis.emergencyScore, on the normal
\* path and on the fallback path alike.
C25_ReportScoreIsAnalysisScore ==
  \A id \in 1..Len(reports) :
    \A i \in 1..Len(AnalysesOf(id)) :
      reports[id].emergencyScore = Val(AnalysesOf(id)[i].emergencyScore)

\* C25, failing input: a committed report has the fallback Analysis with
\* emergencyScore 0 and no emergencyScore of its own.
C25_FailingInput ==
  \E id \in 1..Len(reports) :
    /\ Len(AnalysesOf(id)) = 1
    /\ IsFallback(AnalysesOf(id)[1])
    /\ AnalysesOf(id)[1].emergencyScore = 0
    /\ reports[id].emergencyScore = Null

\* The status_update entries of a report.
StatusEntries(id) ==
  {i \in 1..Len(activities) :
     activities[i].reportId = id
       /\ activities[i].activityType = "status_update"}

\* The report's status is the one named in its most recently created
\* status_update entry.
StatusIsLatestEntry(id) ==
  \A i \in StatusEntries(id) :
    (\A j \in StatusEntries(id) :
       activities[j].createdAt <= activities[i].createdAt)
      => reports[id].status = activities[i].description

\* C26: after any interleaving of committed updateReportStatus calls on one
\* report (no call on it still running), the report's status equals the
\* status named in that report's most recently created status_update
\* entry, and the number of status_update entries equals the number of
\* committed calls: each commit adds one entry and nothing else adds or
\* removes one.
C26_StatusMatchesLatestActivity ==
  [][/\ \A id \in 1..Len(reports') :
          (\A k \in UpdCalls : upd'[k].id # id) => StatusIsLatestEntry(id)'
     /\ Len(activities') = Len(activities)
          + Cardinality({k \in UpdCalls : Commits(k)})
     /\ \A i \in 1..Len(activities) : activities'[i] = activities[i]]_vars

\* C26, failing input: two calls on one report have committed, the entry
\* created last names pending, and the report is closed.
C26_FailingInput ==
  /\ InFlight = {}
  /\ \E id \in 1..Len(reports) :
       /\ Cardinality(StatusEntries(id)) = 2
       /\ reports[id].status = "closed"
       /\ \E i \in StatusEntries(id) :
            /\ activities[i].description = "pending"
            /\ \A j \in StatusEntries(id) :
                 activities[j].createdAt <= activities[i].createdAt

RequestUsers == {Null} \cup {Val(u) : u \in MockUsers}

\* The role sets the guards are built with.
GuardRoleSets == {r.roles : r \in GuardedRoutes}

\* The status a role guard has to answer, 0 for passing the request on.
GuardStatus(roles, user) ==
  IF user = Null THEN 401 ELSE IF user[1].role \in roles THEN 0 ELSE 403

\* C28: the role guards (roleMiddleware and authorize) pass a request on to
\* the handler only when req.user is set and req.user.role is one of the
\* allowed roles; with no user they answer 401 and with a user of another
\* role 403, and in both cases the protected handler is never run.  With
\* optionalAuthenticate in front, a missing, malformed or invalid token
\* always yields req.user = null and the request goes on without an error.
C28_GuardsPassOnlyAllowedRoles ==
  [][/\ \A roles \in GuardRoleSets, user \in RequestUsers :
          /\ roleMiddleware(roles, user) = GuardStatus(roles, user)
          /\ authorize(roles, user) = GuardStatus(roles, user)
     /\ ran' # ran =>
          /\ req # <<>>
          /\ req[1].user # Null
          /\ req[1].user[1].role \in req[1].route.roles
          /\ ran' = Append(ran, [path |-> req[1].route.path,
                                 user |-> req[1].user])
     /\ (req # <<>> /\ req' # req
           /\ Stage \in {"authorize", "roleMiddleware"}) =>
          LET status == GuardStatus(req[1].route.roles, req[1].user) IN
          IF status = 0
          THEN req' # <<>> /\ req'[1].at = req[1].at + 1
                 /\ response' = response
          ELSE req' = <<>> /\ ran' = ran
                 /\ response' = Reply(req[1].route.path, status, Null, <<>>)
     /\ (req # <<>> /\ req' # req /\ Stage = "optionalAuthenticate") =>
          /\ req' # <<>>
          /\ req'[1].at = req[1].at + 1
          /\ response' = response
          /\ (\/ req[1].authorization.scheme # "Bearer"
              \/ ~req[1].authorization.signed) => req'[1].user = Null
          /\ req'[1].user # Null =>
               req'[1].user[1].id = req[1].authorization.id]_vars

\* C28, witness: the dashboard handler has run once, for the agency admin,
\* and the request of the citizen for the dashboard has just been answered
\* 403.
C28_Witness ==
  /\ Len(ran) = 1
  /\ ran[1].path = "/api/admin/dashboard"
  /\ ran[1].user[1].role = "agency_admin"
  /\ req = <<>>
  /\ response = Reply("/api/admin/dashboard", 403, Null, <<>>)

\* C29: in every render in which ProtectedRoute shows its children the auth
\* context holds a current user, and when roles is non-empty that user's
\* role is one of roles; this includes the renders that follow a logout or
\* a change of the user while the route stays mounted.
C29_ChildrenOnlyForAllowedUser ==
  (auth # <<>> /\ route # <<>> /\ View(auth[1], route[1]) = "children")
    => /\ auth[1].currentUser # Null
       /\ HasRole(route[1].roles, auth[1].currentUser)

\* C29, failing input: the children are shown in a render in which the
\* context's user is gone (logout, or a stored token that did not validate)
\* and the route's effect has not run yet.
C29_FailingInput ==
  /\ auth # <<>> /\ route # <<>>
  /\ View(auth[1], route[1]) = "children"
  /\ auth[1].currentUser = Null
  /\ auth[1].token = Null
  /\ route[1].effect

\* A user has an agency role exactly when it belongs to an agency.
RoleMatchesAgency(u) == (u.role \in StaffRoles) <=> (u.agencyId # Null)

\* C30: after any sequence of register, addStaffToAgency and
\* removeStaffFromAgency calls every user has role agency_admin or
\* agency_staff exactly when its agencyId is non-null; register creates a
\* citizen without agency, addStaffToAgency sets role and agency of one user
\* together, removeStaffFromAgency resets both together, and a call that
\* answers 404 (agency or user not found) changes no user.
C30_AgencyRoleIffAgency ==
  [][ /\ \A i \in 1..Len(userRows') : RoleMatchesAgency(userRows'[i])
      /\ (response' # response /\ response'.code = 201
            /\ response'.op = "register")
           => /\ Len(userRows') = Len(userRows) + 1
              /\ SubSeq(userRows', 1, Len(userRows)) = userRows
              /\ userRows'[Len(userRows')].role = "citizen"
              /\ userRows'[Len(userRows')].agencyId = Null
      /\ (response' # response /\ response'.code = 200
            /\ response'.op = "addStaffToAgency")
           => \E i \in 1..Len(userRows) :
                /\ userRows' = [userRows EXCEPT ![i] = response'.report[1]]
                /\ userRows'[i].role \in StaffRoles
                /\ userRows'[i].agencyId # Null
                /\ userRows'[i].agencyId[1] \in Agencies
      /\ (response' # response /\ response'.code = 200
            /\ response'.op = "removeStaffFromAgency")
           => \E i \in 1..Len(userRows) :
                /\ userRows[i].agencyId # Null
                /\ userRows' = [userRows EXCEPT ![i] = response'.report[1]]
                /\ userRows'[i].role = "citizen"
                /\ userRows'[i].agencyId = Null
      /\ (response' # response /\ response'.code \in {400, 404, 500}
            /\ response'.op \in {"register", "addStaffToAgency",
                                 "removeStaffFromAgency"})
           => userRows' = userRows
    ]_vars

\* C30, witness: a user has just been removed from its agency while another
\* user is a member of one.
C30_Witness ==
  /\ response.op = "removeStaffFromAgency"
  /\ response.code = 200
  /\ \E i, j \in 1..Len(userRows) :
       /\ userRows[i].role = "citizen" /\ userRows[i].agencyId = Null
       /\ userRows[i] = response.report[1]
       /\ userRows[j].role \in StaffRoles /\ userRows[j].agencyId # Null

====
